---- MODULE Spec2Model ----
(***************************************************************************)
(* Model of Appathon/Orchestrator.py: a two-node workflow                  *)
(* (analyze_fields -> perform_etl) that asks an oracle for one target      *)
(* field per vendor field, saves the answers as <vendor>_mappings.csv and  *)
(* renames the columns of vendor.csv with them.                            *)
(*                                                                         *)
(* Text is a sequence of one-character strings, so that strip(), lower()   *)
(* and the CSV reader's type inference are computed, not assumed.          *)
(***************************************************************************)
EXTENDS Integers, Sequences, FiniteSets, TLC

VARIABLES
    files,              \* the working directory: file name -> CSV file
    pc,                 \* "idle" | "mapping" | "transform" | "done" | "aborted"
    error,              \* the exception that ended the run, or "none"
    field_maps,         \* state['field_maps']: vendor -> dict
    analysis_complete,  \* state['analysis_complete']
    etl_complete,       \* state['etl_complete']
    current_vendor,     \* state['current_vendor']
    vendor_headers,     \* state['vendor_headers'] (normalized)
    target_headers,     \* state['target_headers']
    transformed_data,   \* state['transformed_data']
    field_mappings,     \* analyze_fields' local dict
    idx,                \* number of vendor fields the loop has finished
    responses,          \* the oracle's responses of this run, in call order
    api_key,            \* OPENAI_API_KEY is set in the environment
    target_samples,     \* state['target_samples']
    requests,           \* the prompts this run has sent to the oracle, in order
    prior               \* the vendor's mapping artifact as this run found it

vars == <<files, pc, error, field_maps, analysis_complete, etl_complete,
          current_vendor, vendor_headers, target_headers, transformed_data,
          field_mappings, idx, responses, api_key, target_samples, requests, prior>>

(***************************************************************************)
(* Bounds                                                                  *)
(***************************************************************************)
MaxFields == 2      \* columns of the vendor schema file
MaxCols == 2        \* columns of vendor.csv
MaxRows == 1        \* data rows of vendor.csv

(***************************************************************************)
(* Text                                                                    *)
(***************************************************************************)
cust_nm == <<"c","u","s","t","_","n","m">>
Cust_Nm == <<"C","u","s","t","_","N","m">>
addr1 == <<"a","d","d","r","1">>
customer_name == <<"c","u","s","t","o","m","e","r","_","n","a","m","e">>
address_line_1 == <<"a","d","d","r","e","s","s","_","l","i","n","e","_","1">>
vendor_field == <<"v","e","n","d","o","r","_","f","i","e","l","d">>
target_field == <<"t","a","r","g","e","t","_","f","i","e","l","d">>
Acme == <<"A","c","m","e">>
Zip007 == <<"0","0","7">>
NA == <<"N","A">>
Empty == <<>>

UpperCase == <<"A","B","C","D","E","F","G","H","I","J","K","L","M",
               "N","O","P","Q","R","S","T","U","V","W","X","Y","Z">>
LowerCase == <<"a","b","c","d","e","f","g","h","i","j","k","l","m",
               "n","o","p","q","r","s","t","u","v","w","x","y","z">>
Digits == <<"0","1","2","3","4","5","6","7","8","9">>

\* str.lower(), one character
LowerChar(c) ==
    IF \E i \in 1..26 : UpperCase[i] = c
    THEN LowerCase[CHOOSE i \in 1..26 : UpperCase[i] = c]
    ELSE c

\* str.lower()
Lower(s) == [i \in 1..Len(s) |-> LowerChar(s[i])]

IsSpace(c) == c = " "

\* str.strip(): drops leading and trailing whitespace
RECURSIVE LStrip(_)
LStrip(s) == IF s # <<>> /\ IsSpace(Head(s)) THEN LStrip(Tail(s)) ELSE s

RECURSIVE RStrip(_)
RStrip(s) ==
    IF s # <<>> /\ IsSpace(s[Len(s)]) THEN RStrip(SubSeq(s, 1, Len(s) - 1)) ELSE s

Strip(s) == RStrip(LStrip(s))

\* h.strip().lower()
Normalize(h) == Lower(Strip(h))

IsDigit(c) == \E i \in 1..10 : Digits[i] = c
DigitVal(c) == (CHOOSE i \in 1..10 : Digits[i] = c) - 1

\* the text is an integer literal (digits only; the texts used here carry no
\* sign, point or exponent)
IsIntText(s) == Len(s) > 0 /\ \A i \in 1..Len(s) : IsDigit(s[i])

RECURSIVE ParseInt(_)
ParseInt(s) ==
    IF s = <<>> THEN 0
    ELSE 10 * ParseInt(SubSeq(s, 1, Len(s) - 1)) + DigitVal(s[Len(s)])

RECURSIVE FormatInt(_)
FormatInt(n) ==
    IF n < 10 THEN <<Digits[n + 1]>>
    ELSE FormatInt(n \div 10) \o <<Digits[(n % 10) + 1]>>

(***************************************************************************)
(* Python values held in a DataFrame cell or label, or decoded from JSON   *)
(***************************************************************************)
PyStr(s) == [t |-> "str", s |-> s, n |-> 0]
PyInt(n) == [t |-> "int", s |-> <<>>, n |-> n]
PyFloat(n) == [t |-> "float", s |-> <<>>, n |-> n]     \* the float n.0
NaN == [t |-> "nan", s |-> <<>>, n |-> 0]

\* == and hash of dict keys: numbers compare by value, NaN equals nothing
PyEq(a, b) ==
    \/ a.t = "str" /\ b.t = "str" /\ a.s = b.s
    \/ a.t \in {"int", "float"} /\ b.t \in {"int", "float"} /\ a.n = b.n

(***************************************************************************)
(* dict: a sequence of <<key, value>> in insertion order, keys unique      *)
(***************************************************************************)
DictHas(d, k) == \E i \in 1..Len(d) : PyEq(d[i][1], k)

DictGet(d, k) == d[CHOOSE i \in 1..Len(d) : PyEq(d[i][1], k)][2]

\* d[k] = v: an existing key keeps its position
DictSet(d, k, v) ==
    IF DictHas(d, k)
    THEN [i \in 1..Len(d) |-> IF PyEq(d[i][1], k) THEN <<d[i][1], v>> ELSE d[i]]
    ELSE Append(d, <<k, v>>)

\* dict(zip(keys, values))
RECURSIVE DictZip(_, _)
DictZip(ks, vs) ==
    IF ks = <<>> \/ vs = <<>> THEN <<>>
    ELSE DictSet(DictZip(SubSeq(ks, 1, Len(ks) - 1), SubSeq(vs, 1, Len(ks) - 1)),
                 ks[Len(ks)], vs[Len(ks)])

(***************************************************************************)
(* CSV files and DataFrames                                                *)
(***************************************************************************)
Absent == [exists |-> FALSE, header |-> <<>>, rows |-> <<>>]
CsvFile(h, r) == [exists |-> TRUE, header |-> h, rows |-> r]

\* pandas' default na_values that occur in the texts used here
NaStrings == {Empty, NA}

\* type inference of one column of pd.read_csv
InferColumn(cells) ==
    LET present == {i \in 1..Len(cells) : cells[i] \notin NaStrings}
        allInt == \A i \in present : IsIntText(cells[i])
    IN  [i \in 1..Len(cells) |->
            IF i \notin present THEN NaN
            ELSE IF ~allInt THEN PyStr(cells[i])
            ELSE IF present = 1..Len(cells) THEN PyInt(ParseInt(cells[i]))
            ELSE PyFloat(ParseInt(cells[i]))]

\* pd.read_csv(path) of an existing file: labels are text, cells are inferred
ReadCsv(f) ==
    LET ncol == Len(f.header)
        col(j) == InferColumn([i \in 1..Len(f.rows) |-> f.rows[i][j]])
    IN  [columns |-> [j \in 1..ncol |-> PyStr(f.header[j])],
         data |-> [i \in 1..Len(f.rows) |-> [j \in 1..ncol |-> col(j)[i]]]]

\* how to_csv writes a label or a cell (na_rep = '')
FormatValue(v) ==
    CASE v.t = "str" -> v.s
      [] v.t = "int" -> FormatInt(v.n)
      [] v.t = "float" -> FormatInt(v.n) \o <<".", "0">>
      [] OTHER -> Empty

\* df.to_csv(path, index=False)
ToCsv(df) ==
    CsvFile([j \in 1..Len(df.columns) |-> FormatValue(df.columns[j])],
            [i \in 1..Len(df.data) |->
                [j \in 1..Len(df.columns) |-> FormatValue(df.data[i][j])]])

\* df[name]: the values of the column labelled name
Column(df, name) ==
    LET j == CHOOSE c \in 1..Len(df.columns) : PyEq(df.columns[c], PyStr(name))
    IN  [i \in 1..Len(df.data) |-> df.data[i][j]]

\* pd.DataFrame(d.items(), columns=[a, b])
ItemsFrame(d, a, b) ==
    [columns |-> <<PyStr(a), PyStr(b)>>,
     data |-> [i \in 1..Len(d) |-> <<d[i][1], d[i][2]>>]]

\* df.rename(columns=m): a label that is a key of m is replaced by its value
Rename(df, m) ==
    [columns |-> [j \in 1..Len(df.columns) |->
                    IF DictHas(m, df.columns[j]) THEN DictGet(m, df.columns[j])
                    ELSE df.columns[j]],
     data |-> df.data]

(***************************************************************************)
(* The files of the working directory                                      *)
(***************************************************************************)
Vendor_A == "Vendor_A"
SchemaPath == "column.csv"
TargetPath == "customers.csv"
VendorDataPath == "vendor.csv"
MappingPath(v) == v \o "_mappings.csv"
OutputPath(v) == v \o "_transformed.csv"

FileNames ==
    {SchemaPath, TargetPath, VendorDataPath, MappingPath(Vendor_A), OutputPath(Vendor_A)}

RawNames == {cust_nm, Cust_Nm, addr1}
Cells == {Acme, Zip007, NA}

\* sequences of length 1..n of pairwise different elements of S
DistinctSeqs(S, n) ==
    UNION {{q \in [1..k -> S] : \A i, j \in 1..k : i # j => q[i] # q[j]} : k \in 1..n}

\* column.csv: its header row lists the vendor's fields
SchemaFiles == {CsvFile(h, <<>>) : h \in DistinctSeqs(RawNames, MaxFields)}

\* customers.csv: target fields, with one row of descriptions
TargetFile == CsvFile(<<customer_name, address_line_1>>, <<<<Acme, Acme>>>>)

TablesOver(headers, cells) ==
    UNION {{CsvFile(h, r) : r \in UNION {[1..k -> [1..Len(h) -> cells]] : k \in 0..MaxRows}}
           : h \in headers}

\* vendor.csv as the pipeline runs see it
SourceFiles == TablesOver(DistinctSeqs(RawNames, MaxCols), {Acme})

\* a file without a header line: pd.read_csv raises EmptyDataError
EmptyFile == CsvFile(<<>>, <<>>)

\* pd.read_csv(file_path) does not raise
Readable(f) == f.exists /\ f.header # <<>>

\* df.iloc[0].tolist() if not df.empty else [""] * len(headers)
SampleRow(f) ==
    LET df == ReadCsv(f)
    IN  IF df.data = <<>> THEN [j \in 1..Len(df.columns) |-> PyStr(Empty)]
        ELSE df.data[1]

\* str(value)
PyToStr(v) ==
    CASE v.t = "str" -> v.s
      [] v.t = "int" -> FormatInt(v.n)
      [] v.t = "float" -> FormatInt(v.n) \o <<".", "0">>
      [] OTHER -> <<"n", "a", "n">>

(***************************************************************************)
(* The oracle                                                              *)
(***************************************************************************)
\* the prompt of one call: the vendor field(s) it asks about, and
\* dict(zip(target_fields, target_definitions))
Request(fields, ths, tss) ==
    [fields |-> fields,
     targets |-> DictZip([j \in 1..Len(ths) |-> PyStr(ths[j])],
                         [j \in 1..Len(tss) |-> PyStr(PyToStr(tss[j]))])]

\* values an answer may give for the queried key
Values == {PyStr(customer_name), PyStr(address_line_1), PyStr(NA)}

\* a JSON object that names the queried field under another key
NoKeyBody(vf) ==
    <<<<PyStr(vendor_field), PyStr(vf)>>, <<PyStr(target_field), PyStr(customer_name)>>>>

\* what llm.invoke may do when asked about vf:
\*   raises  - the call raises           nontext - content is not a str
\*   invalid - content is not JSON       nondict - JSON, but not an object
\*   object  - a JSON object (body)
Response(kind, body) == [kind |-> kind, body |-> body]

Responses(vf) ==
    {Response(k, <<>>) : k \in {"raises", "nontext", "invalid", "nondict"}}
    \cup {Response("object", NoKeyBody(vf))}
    \cup {Response("object", <<<<PyStr(vf), v>>>>) : v \in Values}

\* llm.invoke(messages) or json.loads(response.content) raises something that
\* `except json.JSONDecodeError` does not catch
Uncaught(r) == r.kind \in {"raises", "nontext"}

UncaughtError(r) == IF r.kind = "raises" THEN "OracleError" ELSE "TypeError"

\* isinstance(mapping, dict) and vendor_field in mapping
Accepted(r, vf) == r.kind = "object" /\ DictHas(r.body, PyStr(vf))

\* a loop body that never overwrites an entry it already made
Matched_KeepFirst(d, r, vf) ==
    IF Accepted(r, vf) /\ ~DictHas(d, PyStr(vf))
    THEN DictSet(d, PyStr(vf), DictGet(r.body, PyStr(vf)))
    ELSE d

\* the loop body's effect on field_mappings
Matched(d, r, vf) ==
    IF Accepted(r, vf) THEN DictSet(d, PyStr(vf), DictGet(r.body, PyStr(vf))) ELSE d

(***************************************************************************)
(* MappingStore and TransformEngine                                        *)
(***************************************************************************)
\* a store that writes no artifact for an empty mapping
\* a to_csv that opens the file with mode='a': header and rows go after what
\* the file already holds
Overwrite_Append(old, new) ==
    IF old.exists THEN CsvFile(old.header, old.rows \o <<new.header>> \o new.rows)
    ELSE new

\* a to_csv that leaves an existing file alone
Overwrite_KeepOld(old, new) == IF old.exists THEN old ELSE new

\* df.to_csv(path, index=False) opens the file with mode='w': what the file
\* held before is gone
Overwrite(old, new) == new

Persist_SkipEmpty(d) ==
    IF d = <<>> THEN Absent ELSE ToCsv(ItemsFrame(d, vendor_field, target_field))

\* pd.DataFrame(field_mappings.items(), columns=[...]).to_csv(mapping_file)
Persist(d) == ToCsv(ItemsFrame(d, vendor_field, target_field))

\* dict(zip(mapping_df['vendor_field'], mapping_df['target_field']))
LoadMapping(f) ==
    LET mapping_df == ReadCsv(f)
    IN  DictZip(Column(mapping_df, vendor_field), Column(mapping_df, target_field))

\* vendor_df.rename(columns=field_mapping).to_csv(output_file)
Transform(source, mapping) == ToCsv(Rename(ReadCsv(source), LoadMapping(mapping)))

\* a transform that does not look for the source file
EtlPrecondition_NoSourceCheck(fs, v) ==
    IF ~fs[MappingPath(v)].exists THEN "MappingNotFound" ELSE "none"

\* the two os.path.exists checks of perform_etl; "none" when both pass
EtlPrecondition(fs, v) ==
    IF ~fs[VendorDataPath].exists THEN "SourceNotFound"
    ELSE IF ~fs[MappingPath(v)].exists THEN "MappingNotFound"
    ELSE "none"

(***************************************************************************)
(* Actions                                                                 *)
(***************************************************************************)
\* a loop that stops one field early
LoopDone_Early(i, hs) == i >= Len(hs) - 1

\* `for vendor_field in vendor_fields` is exhausted after i fields
LoopDone(i, hs) == i = Len(hs)

\* a script that does not look at the credential
CredentialOk_Skip(key) == TRUE

\* `if not OPENAI_API_KEY: raise ValueError`
CredentialOk(key) == key

\* a script that reads the target schema without noticing a failure
SchemasReadable_VendorOnly(fs) == Readable(fs[SchemaPath])

\* both read_csv_schema calls return
SchemasReadable(fs) == Readable(fs[SchemaPath]) /\ Readable(fs[TargetPath])

\* what ends the script before the workflow is invoked; "none" when nothing does
StartFailure(key, fs) ==
    IF ~CredentialOk(key) THEN "ConfigError"
    ELSE IF ~SchemasReadable(fs) THEN "SchemaReadError"
    ELSE "none"

\* the script up to chain.invoke: check the credential, read both schemas,
\* normalize the vendor's headers, build the initial state
Start ==
    /\ pc = "idle"
    /\ IF StartFailure(api_key, files) = "none"
       THEN /\ pc' = "mapping"
            /\ error' = "none"
            /\ vendor_headers' =
                 [i \in 1..Len(files[SchemaPath].header) |->
                    Normalize(files[SchemaPath].header[i])]
            /\ target_headers' = files[TargetPath].header
            /\ target_samples' = SampleRow(files[TargetPath])
       ELSE /\ pc' = "aborted"
            /\ error' = StartFailure(api_key, files)
            /\ UNCHANGED <<vendor_headers, target_headers, target_samples>>
    /\ field_maps' = <<>>
    /\ analysis_complete' = FALSE
    /\ etl_complete' = FALSE
    /\ current_vendor' = Vendor_A
    /\ transformed_data' = ""
    /\ field_mappings' = <<>>
    /\ idx' = 0
    /\ responses' = <<>>
    /\ requests' = <<>>
    /\ prior' = files[MappingPath(Vendor_A)]
    /\ UNCHANGED <<files, api_key>>

\* a loop that saves the mapping after every field instead of once at the end
AnalyzeStep_WriteThrough(r) ==
    /\ requests' = Append(requests, Request(<<vendor_headers[idx + 1]>>,
                                            target_headers, target_samples))
    /\ responses' = Append(responses, r)
    /\ IF Uncaught(r)
       THEN /\ pc' = "aborted"
            /\ error' = UncaughtError(r)
            /\ UNCHANGED <<field_mappings, idx, files>>
       ELSE /\ field_mappings' = Matched(field_mappings, r, vendor_headers[idx + 1])
            /\ idx' = idx + 1
            /\ files' = [files EXCEPT ![MappingPath(current_vendor)] =
                            Overwrite(@, Persist(field_mappings'))]
            /\ UNCHANGED <<pc, error>>
    /\ UNCHANGED <<field_maps, analysis_complete, etl_complete, current_vendor,
                   vendor_headers, target_headers, transformed_data, api_key,
                   target_samples, prior>>

\* one iteration of analyze_fields' loop: ask the oracle about the next field
AnalyzeStep(r) ==
    /\ requests' = Append(requests, Request(<<vendor_headers[idx + 1]>>,
                                            target_headers, target_samples))
    /\ responses' = Append(responses, r)
    /\ IF Uncaught(r)
       THEN /\ pc' = "aborted"
            /\ error' = UncaughtError(r)
            /\ UNCHANGED <<field_mappings, idx>>
       ELSE /\ field_mappings' = Matched(field_mappings, r, vendor_headers[idx + 1])
            /\ idx' = idx + 1
            /\ UNCHANGED <<pc, error>>
    /\ UNCHANGED <<files, field_maps, analysis_complete, etl_complete, current_vendor,
                   vendor_headers, target_headers, transformed_data, api_key,
                   target_samples, prior>>

AnalyzeField ==
    /\ pc = "mapping"
    /\ idx < Len(vendor_headers)
    /\ \E r \in Responses(vendor_headers[idx + 1]) : AnalyzeStep(r)

\* an analyze_fields that sets the flag without saving the mapping
FinishAnalysis_FlagOnly ==
    /\ pc = "mapping"
    /\ LoopDone(idx, vendor_headers)
    /\ field_maps' = DictSet(field_maps, PyStr(current_vendor), field_mappings)
    /\ analysis_complete' = TRUE
    /\ pc' = "transform"
    /\ UNCHANGED <<files, error, etl_complete, current_vendor, vendor_headers,
                   target_headers, transformed_data, field_mappings, idx, responses,
                   api_key, target_samples, requests, prior>>

\* analyze_fields after the loop: merge, persist, set the flag; the workflow's
\* edge then hands the state to perform_etl
FinishAnalysis ==
    /\ pc = "mapping"
    /\ LoopDone(idx, vendor_headers)
    /\ field_maps' = DictSet(field_maps, PyStr(current_vendor), field_mappings)
    /\ files' = [files EXCEPT ![MappingPath(current_vendor)] =
                    Overwrite(@, Persist(field_mappings))]
    /\ analysis_complete' = TRUE
    /\ pc' = "transform"
    /\ UNCHANGED <<error, etl_complete, current_vendor, vendor_headers, target_headers,
                   transformed_data, field_mappings, idx, responses, api_key,
                   target_samples, requests, prior>>

\* perform_etl
PerformEtl ==
    /\ pc = "transform"
    /\ LET failure == EtlPrecondition(files, current_vendor)
       IN  IF failure # "none"
           THEN /\ pc' = "aborted"
                /\ error' = failure
                /\ UNCHANGED <<files, etl_complete, transformed_data>>
           ELSE /\ files' = [files EXCEPT ![OutputPath(current_vendor)] =
                                Overwrite(@, Transform(files[VendorDataPath],
                                                       files[MappingPath(current_vendor)]))]
                /\ etl_complete' = TRUE
                /\ transformed_data' = OutputPath(current_vendor)
                /\ pc' = "done"
                /\ UNCHANGED error
    /\ UNCHANGED <<field_maps, analysis_complete, current_vendor, vendor_headers,
                   target_headers, field_mappings, idx, responses, api_key,
                   target_samples, requests, prior>>

(***************************************************************************)
(* The pipeline: one run of the script in a working directory that holds   *)
(* the schema files and vendor.csv                                         *)
(***************************************************************************)
\* the directory before the first run: the schema files (or what is there in
\* their place), vendor.csv out of sources, no artifact yet
WorkingDirs(sources) ==
    {[n \in FileNames |->
        CASE n = SchemaPath -> s
          [] n = TargetPath -> t
          [] n = VendorDataPath -> d
          [] OTHER -> Absent]
     : s \in SchemaFiles \cup {Absent, EmptyFile}, t \in {TargetFile, Absent}, d \in sources}

Init ==
    /\ files \in WorkingDirs(SourceFiles \cup {Absent})
    /\ api_key \in BOOLEAN
    /\ target_samples = <<>>
    /\ requests = <<>>
    /\ prior = Absent
    /\ pc = "idle"
    /\ error = "none"
    /\ field_maps = <<>>
    /\ analysis_complete = FALSE
    /\ etl_complete = FALSE
    /\ current_vendor = Vendor_A
    /\ vendor_headers = <<>>
    /\ target_headers = <<>>
    /\ transformed_data = ""
    /\ field_mappings = <<>>
    /\ idx = 0
    /\ responses = <<>>

Next ==
    \/ Start
    \/ AnalyzeField
    \/ FinishAnalysis
    \/ PerformEtl

Spec == Init /\ [][Next]_vars

(***************************************************************************)
(* The script run again and again in one working directory                 *)
(***************************************************************************)
\* the process has ended; the script is started once more. Nothing of the
\* state dict outlives the process, the files do.
Rerun ==
    /\ pc \in {"done", "aborted"}
    /\ pc' = "idle"
    /\ error' = "none"
    /\ field_maps' = <<>>
    /\ analysis_complete' = FALSE
    /\ etl_complete' = FALSE
    /\ vendor_headers' = <<>>
    /\ target_headers' = <<>>
    /\ target_samples' = <<>>
    /\ transformed_data' = ""
    /\ field_mappings' = <<>>
    /\ idx' = 0
    /\ requests' = <<>>
    /\ responses' = <<>>
    /\ prior' = Absent
    /\ UNCHANGED <<files, api_key, current_vendor>>

\* vendor.csv of the repeated runs
RunSourceFile == CsvFile(<<cust_nm, addr1>>, <<<<Acme, Acme>>>>)

\* a mapping artifact that a run on an earlier column.csv has left
EarlierArtifact ==
    Persist(<<<<PyStr(cust_nm), PyStr(customer_name)>>,
              <<PyStr(addr1), PyStr(address_line_1)>>>>)

InitRuns ==
    /\ files \in {[d EXCEPT ![MappingPath(Vendor_A)] = m]
                    : d \in WorkingDirs({RunSourceFile, Absent}),
                      m \in {EarlierArtifact, Absent}}
    /\ api_key \in BOOLEAN
    /\ target_samples = <<>>
    /\ requests = <<>>
    /\ prior = Absent
    /\ pc = "idle"
    /\ error = "none"
    /\ field_maps = <<>>
    /\ analysis_complete = FALSE
    /\ etl_complete = FALSE
    /\ current_vendor = Vendor_A
    /\ vendor_headers = <<>>
    /\ target_headers = <<>>
    /\ transformed_data = ""
    /\ field_mappings = <<>>
    /\ idx = 0
    /\ responses = <<>>

NextRuns ==
    \/ Start
    \/ AnalyzeField
    \/ FinishAnalysis
    \/ PerformEtl
    \/ Rerun

SpecRuns == InitRuns /\ [][NextRuns]_vars

(***************************************************************************)
(* perform_etl on its own: the caller hands it a state, the working        *)
(* directory holds any source file and any artifact analyze_fields can     *)
(* have written, or lacks them                                             *)
(***************************************************************************)
NormNames == {Normalize(h) : h \in RawNames}

\* the dicts analyze_fields can build
Mappings ==
    {<<>>} \cup
    {[i \in 1..Len(ks) |-> <<PyStr(ks[i]), vs[i]>>] :
        ks \in DistinctSeqs(NormNames, MaxFields), vs \in [1..MaxFields -> Values]}

EtlSourceFiles == TablesOver(DistinctSeqs(RawNames, MaxCols), Cells)

InitEtl ==
    /\ files \in {[n \in FileNames |->
                    CASE n = VendorDataPath -> d
                      [] n = MappingPath(Vendor_A) -> m
                      [] n = TargetPath -> TargetFile
                      [] OTHER -> Absent]
                  : d \in EtlSourceFiles \cup {Absent},
                    m \in {Persist(x) : x \in Mappings} \cup {Absent}}
    /\ pc = "transform"
    /\ error = "none"
    /\ field_maps = <<>>
    /\ analysis_complete \in BOOLEAN
    /\ etl_complete = FALSE
    /\ current_vendor = Vendor_A
    /\ vendor_headers = <<>>
    /\ target_headers = <<>>
    /\ transformed_data = ""
    /\ field_mappings = <<>>
    /\ idx = 0
    /\ responses = <<>>
    /\ api_key = TRUE
    /\ target_samples = <<>>
    /\ requests = <<>>
    /\ prior = Absent

NextEtl == PerformEtl

SpecEtl == InitEtl /\ [][NextEtl]_vars

\* the workflow's perform_etl node entered once more with the state and the
\* files the last invocation left
InvokeAgain ==
    /\ pc = "done"
    /\ pc' = "transform"
    /\ UNCHANGED <<files, error, field_maps, analysis_complete, etl_complete,
                   current_vendor, vendor_headers, target_headers, transformed_data,
                   field_mappings, idx, responses, api_key, target_samples, requests,
                   prior>>

NextEtlTwice == PerformEtl \/ InvokeAgain

SpecEtlTwice == InitEtl /\ [][NextEtlTwice]_vars

(***************************************************************************)
(* Eureka/orch.py: the mapping stage on its own, asked in one prompt       *)
(***************************************************************************)
FieldName == <<"F", "i", "e", "l", "d", " ", "N", "a", "m", "e">>
BusinessDefinition ==
    <<"B", "u", "s", "i", "n", "e", "s", "s", " ", "D", "e", "f", "i", "n", "i", "t", "i", "o", "n">>
VendorField == <<"V", "e", "n", "d", "o", "r", " ", "F", "i", "e", "l", "d">>
CustomerField == <<"C", "u", "s", "t", "o", "m", "e", "r", " ", "F", "i", "e", "l", "d">>

EurekaVendorPath == "../csv/vendor_input_format.csv"
EurekaCustomerPath == "../csv/sample.csv"
EurekaFileNames == {EurekaVendorPath, EurekaCustomerPath, MappingPath(Vendor_A)}

\* df[name] does not raise KeyError
HasColumn(f, name) == \E j \in 1..Len(f.header) : f.header[j] = name

\* vendor_input_format.csv: one row per vendor field under 'Field Name'; or no
\* row; or a file in column.csv's layout, without that column
EurekaVendorFiles ==
    {CsvFile(<<FieldName>>, [i \in 1..Len(q) |-> <<q[i]>>])
        : q \in DistinctSeqs(RawNames, MaxFields) \cup {<<>>}}
    \cup {CsvFile(<<cust_nm, addr1>>, <<>>)}

\* sample.csv: the customer's fields with their business definitions
EurekaCustomerFile ==
    CsvFile(<<FieldName, BusinessDefinition>>,
            <<<<customer_name, Acme>>, <<address_line_1, Acme>>>>)

\* read_vendor_schema and read_customer_schema both return
EurekaReadable(fs) ==
    /\ Readable(fs[EurekaVendorPath])
    /\ HasColumn(fs[EurekaVendorPath], FieldName)
    /\ Readable(fs[EurekaCustomerPath])
    /\ HasColumn(fs[EurekaCustomerPath], FieldName)
    /\ HasColumn(fs[EurekaCustomerPath], BusinessDefinition)

EurekaStartFailure(key, fs) ==
    IF ~CredentialOk(key) THEN "ConfigError"
    ELSE IF ~EurekaReadable(fs) THEN "SchemaReadError"
    ELSE "none"

\* the texts of a list of values, as an f-string prints them
Texts(vs) == [j \in 1..Len(vs) |-> PyToStr(vs[j])]

\* the script up to chain.invoke; vendor_headers holds state['vendor_fields'],
\* target_headers and target_samples the keys and the values of
\* state['target_descriptions']
EurekaStart ==
    /\ pc = "idle"
    /\ IF EurekaStartFailure(api_key, files) = "none"
       THEN /\ pc' = "mapping"
            /\ error' = "none"
            /\ vendor_headers' =
                 Texts(Column(ReadCsv(files[EurekaVendorPath]), FieldName))
            /\ target_headers' =
                 Texts(Column(ReadCsv(files[EurekaCustomerPath]), FieldName))
            /\ target_samples' =
                 Column(ReadCsv(files[EurekaCustomerPath]), BusinessDefinition)
       ELSE /\ pc' = "aborted"
            /\ error' = EurekaStartFailure(api_key, files)
            /\ UNCHANGED <<vendor_headers, target_headers, target_samples>>
    /\ field_maps' = <<>>
    /\ analysis_complete' = FALSE
    /\ current_vendor' = Vendor_A
    /\ requests' = <<>>
    /\ responses' = <<>>
    /\ prior' = files[MappingPath(Vendor_A)]
    /\ UNCHANGED <<files, api_key, etl_complete, transformed_data, field_mappings, idx>>

\* what llm.invoke may do when asked about all of fields at once: the failures
\* of Response, or a JSON object pairing the first k fields with targets
EurekaResponses(fields) ==
    {Response(k, <<>>) : k \in {"raises", "nontext", "invalid", "nondict"}}
    \cup UNION {{Response("object", [j \in 1..k |-> <<PyStr(fields[j]), g[j]>>])
                   : g \in [1..k -> Values]} : k \in 0..Len(fields)}

\* the exception that ends analyze_fields
EurekaError(r) ==
    CASE r.kind = "raises" -> "OracleError"
      [] r.kind = "nontext" -> "TypeError"
      [] OTHER -> "ValueError"

\* analyze_fields: one prompt with every vendor field, one response, the
\* response's object taken as the vendor's mapping and saved
EurekaAnalyzeStep(r) ==
    /\ requests' = Append(requests, Request(vendor_headers, target_headers,
                                            target_samples))
    /\ responses' = Append(responses, r)
    /\ IF r.kind = "object"
       THEN /\ field_maps' = r.body
            /\ files' = [files EXCEPT ![MappingPath(current_vendor)] =
                            Overwrite(@, ToCsv(ItemsFrame(r.body, VendorField,
                                                          CustomerField)))]
            /\ analysis_complete' = TRUE
            /\ pc' = "done"
            /\ UNCHANGED error
       ELSE /\ pc' = "aborted"
            /\ error' = EurekaError(r)
            /\ UNCHANGED <<files, field_maps, analysis_complete>>
    /\ UNCHANGED <<etl_complete, current_vendor, vendor_headers, target_headers,
                   transformed_data, field_mappings, idx, api_key, target_samples,
                   prior>>

EurekaAnalyze ==
    /\ pc = "mapping"
    /\ \E r \in EurekaResponses(vendor_headers) : EurekaAnalyzeStep(r)

InitEureka ==
    /\ files \in {[n \in EurekaFileNames |->
                    CASE n = EurekaVendorPath -> v
                      [] n = EurekaCustomerPath -> c
                      [] OTHER -> Absent]
                  : v \in EurekaVendorFiles \cup {Absent},
                    c \in {EurekaCustomerFile, Absent}}
    /\ api_key \in BOOLEAN
    /\ pc = "idle"
    /\ error = "none"
    /\ field_maps = <<>>
    /\ analysis_complete = FALSE
    /\ etl_complete = FALSE
    /\ current_vendor = Vendor_A
    /\ vendor_headers = <<>>
    /\ target_headers = <<>>
    /\ target_samples = <<>>
    /\ transformed_data = ""
    /\ field_mappings = <<>>
    /\ idx = 0
    /\ requests = <<>>
    /\ responses = <<>>
    /\ prior = Absent

NextEureka == EurekaStart \/ EurekaAnalyze

SpecEureka == InitEureka /\ [][NextEureka]_vars

(***************************************************************************)
(* Vocabulary of the properties                                            *)
(***************************************************************************)
\* the response is a key->value object that holds an entry for the field
UsableMatch(r, vf) ==
    r.kind = "object" /\ \E e \in 1..Len(r.body) : r.body[e][1] = PyStr(vf)

\* the value such a response gives for the field
MatchValue(r, vf) ==
    r.body[CHOOSE e \in 1..Len(r.body) : r.body[e][1] = PyStr(vf)][2]

\* the calls of this run that did not yield a usable match
FailedCalls ==
    {i \in 1..Len(responses) : ~UsableMatch(responses[i], vendor_headers[i])}

\* the entries a dict holds for a key
EntriesFor(d, k) == {i \in 1..Len(d) : d[i][1] = PyStr(k)}

\* analyze_fields has returned
MappingStageOver == pc \in {"transform", "done"} \/ error \in {"SourceNotFound", "MappingNotFound"}

\* the run ended inside analyze_fields' loop
AbortedInMapping == pc = "aborted" /\ error \in {"OracleError", "TypeError"}

(***************************************************************************)
(* Properties                                                              *)
(***************************************************************************)
\* C1: a run over n vendor fields in which k oracle calls fail to yield a
\* usable match is not aborted by the mapping stage, and the mapping it
\* produces has exactly n - k entries.
C1_PartialFailureBound ==
    /\ ~AbortedInMapping
    /\ MappingStageOver =>
         Len(field_mappings) = Len(vendor_headers) - Cardinality(FailedCalls)

\* C2: no response of the oracle, whatever its shape, aborts the run: the
\* loop has moved past every response it has received.
C2_NoResponseAborts ==
    \A i \in 1..Len(responses) : responses[i].kind # "raises" => idx >= i

\* C3 as stated: after the mapping stage, every field whose response was
\* usable has exactly one entry, holding the value of that response, and
\* every field whose response was not usable has no entry.
C3_AsStated ==
    MappingStageOver =>
        \A i \in 1..Len(vendor_headers) :
            LET vf == vendor_headers[i]
                es == EntriesFor(field_mappings, vf)
            IN  IF UsableMatch(responses[i], vf)
                THEN /\ Cardinality(es) = 1
                     /\ \A e \in es : field_mappings[e][2] = MatchValue(responses[i], vf)
                ELSE es = {}

\* C3 amended: after the mapping stage, every normalized field name has one
\* entry exactly when some call made for that name got a usable response,
\* and the entry holds the value of the last such response.
C3_EntryPerName ==
    MappingStageOver =>
        \A i \in 1..Len(vendor_headers) :
            LET vf == vendor_headers[i]
                es == EntriesFor(field_mappings, vf)
                calls == {c \in 1..Len(vendor_headers) :
                            vendor_headers[c] = vf /\ UsableMatch(responses[c], vf)}
            IN  IF calls = {} THEN es = {}
                ELSE /\ Cardinality(es) = 1
                     /\ \A e \in es :
                          field_mappings[e][2] =
                            MatchValue(responses[CHOOSE c \in calls : \A o \in calls : o <= c], vf)

\* C3 witness: the mapping stage is over, one field was matched and another,
\* of a different name, was skipped
C3_Witness ==
    /\ MappingStageOver
    /\ \E i, j \in 1..Len(vendor_headers) :
        /\ vendor_headers[i] # vendor_headers[j]
        /\ UsableMatch(responses[i], vendor_headers[i])
        /\ ~UsableMatch(responses[j], vendor_headers[j])
        /\ EntriesFor(field_mappings, vendor_headers[i]) # {}
        /\ EntriesFor(field_mappings, vendor_headers[j]) = {}

\* the moves of pc the workflow graph allows
StageEdges ==
    {<<"idle", "mapping">>, <<"mapping", "transform">>, <<"transform", "done">>,
     <<"idle", "aborted">>, <<"mapping", "aborted">>, <<"transform", "aborted">>}

\* the mapping stage has finished: all fields taken, artifact on disk, flag set
TransformMayBegin ==
    /\ idx = Len(vendor_headers)
    /\ Len(responses) = Len(vendor_headers)
    /\ analysis_complete
    /\ files[MappingPath(current_vendor)] = Persist(field_mappings)

\* C4: the stage moves only idle -> mapping -> transform -> done (or into an
\* abort), the loop takes the fields one by one without going back, and the
\* transform begins, and writes, only after the mapping stage has processed
\* every vendor field, persisted this run's mapping and set the flag.
C4_StageOrder ==
    [][ /\ pc' # pc => <<pc, pc'>> \in StageEdges
        /\ (pc = "mapping" /\ pc' = "mapping") => idx' = idx + 1
        /\ pc' = "transform" => TransformMayBegin'
        /\ (\/ files'[OutputPath(current_vendor)] # files[OutputPath(current_vendor)]
            \/ etl_complete' # etl_complete
            \/ pc' = "done")
           => (pc = "transform" /\ TransformMayBegin) ]_vars

\* C4 witness: a run that matched fewer fields than the vendor has is done
C4_Witness ==
    /\ pc = "done"
    /\ etl_complete
    /\ Len(vendor_headers) >= 2
    /\ Len(field_mappings) < Len(vendor_headers)

\* the loop has taken the last vendor field and the stage has not ended yet
AllFieldsProcessed == pc = "mapping" /\ idx = Len(vendor_headers)

\* C5: once the loop has taken every vendor field, the step to the transform
\* stage is enabled whatever was matched, no other step is, and it writes a
\* mapping artifact with the two-column header and one row per entry (no
\* rows when nothing was matched).
C5_AdvanceUnconditionally ==
    /\ [][ AllFieldsProcessed =>
            /\ pc' = "transform"
            /\ error' = "none"
            /\ files'[MappingPath(current_vendor)].exists
            /\ files'[MappingPath(current_vendor)].header = <<vendor_field, target_field>>
            /\ Len(files'[MappingPath(current_vendor)].rows) = Len(field_mappings) ]_vars
    /\ [](AllFieldsProcessed => ENABLED FinishAnalysis)

\* C5 witness: the transform stage is entered with nothing matched and a
\* header-only artifact on disk
C5_Witness ==
    /\ pc = "transform"
    /\ Len(vendor_headers) >= 1
    /\ field_mappings = <<>>
    /\ files[MappingPath(current_vendor)] = CsvFile(<<vendor_field, target_field>>, <<>>)

\* C6: the transform produces output, and the run reaches DONE, only on a
\* mapping artifact that exists and has at least one entry.
C6_EmptyMappingRejected ==
    (pc = "done" \/ files[OutputPath(current_vendor)].exists) =>
        /\ files[MappingPath(current_vendor)].exists
        /\ files[MappingPath(current_vendor)].rows # <<>>

\* C7: when vendor.csv or the vendor's mapping artifact is missing, the
\* transform ends in an error and changes no file, nor the transform-complete
\* flag, nor the output location.
C7_PreconditionsFirst ==
    [][ (/\ pc = "transform"
         /\ \/ ~files[VendorDataPath].exists
            \/ ~files[MappingPath(current_vendor)].exists)
        => /\ pc' = "aborted"
           /\ error' \in {"SourceNotFound", "MappingNotFound"}
           /\ files' = files
           /\ etl_complete' = etl_complete
           /\ transformed_data' = transformed_data ]_vars

\* C7 witness: the transform was invoked with a source file but without any
\* mapping artifact, and ended in the error with no output file
C7_Witness ==
    /\ pc = "aborted"
    /\ error = "MappingNotFound"
    /\ files[VendorDataPath].exists
    /\ ~files[MappingPath(current_vendor)].exists
    /\ ~files[OutputPath(current_vendor)].exists
    /\ ~etl_complete
    /\ transformed_data = ""

\* the key/value pairs of a dict, order dropped
Items(d) == {<<d[i][1], d[i][2]>> : i \in 1..Len(d)}

\* C8: loading the artifact the mapping stage has persisted yields the
\* key/value pairs of the mapping it persisted.
C8_RoundTrip ==
    (MappingStageOver /\ files[MappingPath(current_vendor)].exists) =>
        Items(LoadMapping(files[MappingPath(current_vendor)])) = Items(field_mappings)

\* every call of the run answered with a target field for the queried field
ResolvedAll ==
    /\ Len(responses) = Len(vendor_headers)
    /\ \A i \in 1..Len(vendor_headers) :
        /\ UsableMatch(responses[i], vendor_headers[i])
        /\ \E t \in 1..Len(target_headers) :
             MatchValue(responses[i], vendor_headers[i]) = PyStr(target_headers[t])

\* C9: when the oracle resolved every vendor field to a target field and
\* vendor.csv carries the schema file's field names, a finished run's output
\* names every column by the target field the oracle gave for it and keeps
\* the rows.
C9_EndToEndRename ==
    (/\ pc = "done"
     /\ ResolvedAll
     /\ files[VendorDataPath].header = files[SchemaPath].header)
    => /\ files[OutputPath(current_vendor)].exists
       /\ Len(files[OutputPath(current_vendor)].header) = Len(vendor_headers)
       /\ \A i \in 1..Len(vendor_headers) :
            PyStr(files[OutputPath(current_vendor)].header[i])
              = MatchValue(responses[i], vendor_headers[i])
       /\ files[OutputPath(current_vendor)].rows = files[VendorDataPath].rows

\* the vendor_field column of a mapping artifact
MappingKeys(f) == {f.rows[i][1] : i \in 1..Len(f.rows)}

\* the cells of column j of a CSV file
ColumnText(f, j) == [i \in 1..Len(f.rows) |-> f.rows[i][j]]

\* C10: every column of vendor.csv whose name is not a key of the mapping
\* artifact is a column of the output, under the same name and with the same
\* values.
C10_PassThrough ==
    pc = "done" =>
        LET src == files[VendorDataPath]
            out == files[OutputPath(current_vendor)]
        IN  \A j \in 1..Len(src.header) :
                src.header[j] \notin MappingKeys(files[MappingPath(current_vendor)])
                => \E o \in 1..Len(out.header) :
                     /\ out.header[o] = src.header[j]
                     /\ ColumnText(out, o) = ColumnText(src, j)

\* C11: a finished transform has changed the field names only: the output
\* has the rows of vendor.csv in their order and its columns in their
\* positions, every cell equal to the source cell.
C11_NamesOnly ==
    pc = "done" =>
        LET src == files[VendorDataPath]
            out == files[OutputPath(current_vendor)]
        IN  /\ Len(out.header) = Len(src.header)
            /\ Len(out.rows) = Len(src.rows)
            /\ \A j \in 1..Len(src.header) : ColumnText(out, j) = ColumnText(src, j)

\* the output artifact is there from an earlier invocation of the transform
OutputWritten == files[OutputPath(current_vendor)].exists

\* C12: the transform is idempotent: an invocation that finds the output of an
\* earlier invocation, with the same source file and the same mapping artifact,
\* ends with the identical output artifact and leaves the source file and the
\* mapping artifact as they were.
C12_Idempotent ==
    [][(pc = "transform" /\ OutputWritten) =>
          /\ pc' = "done"
          /\ files'[OutputPath(current_vendor)] = files[OutputPath(current_vendor)]
          /\ files'[VendorDataPath] = files[VendorDataPath]
          /\ files'[MappingPath(current_vendor)] = files[MappingPath(current_vendor)]]_vars

\* a second invocation is about to run on an output that has rows and a
\* renamed column
C12_Witness ==
    /\ pc = "transform"
    /\ OutputWritten
    /\ files[OutputPath(current_vendor)].rows # <<>>
    /\ files[OutputPath(current_vendor)].header # files[VendorDataPath].header

\* neither artifact of the vendor is on disk
NoArtifact ==
    /\ ~files[MappingPath(Vendor_A)].exists
    /\ ~files[OutputPath(Vendor_A)].exists

\* C13: without the oracle credential the process fails at startup and no stage
\* executes: no schema is read, no oracle call is issued, no mapping or output
\* artifact is written.
C13_NoCredentialNoStage ==
    ~api_key =>
        /\ pc \in {"idle", "aborted"}
        /\ pc = "aborted" => error = "ConfigError"
        /\ vendor_headers = <<>> /\ target_headers = <<>> /\ target_samples = <<>>
        /\ requests = <<>> /\ responses = <<>>
        /\ ~analysis_complete /\ ~etl_complete
        /\ NoArtifact

\* the startup failure with both schema files readable and vendor.csv there:
\* the credential alone stopped the run
C13_Witness ==
    /\ ~api_key
    /\ pc = "aborted"
    /\ SchemasReadable(files)
    /\ files[SchemaPath].header # <<>>
    /\ files[VendorDataPath].exists

\* the target field names a request carries
RequestTargets(q) == [j \in 1..Len(q.targets) |-> q.targets[j][1].s]

\* C14: the mapping stage sends exactly one oracle request per vendor field, in
\* vendor-field order, the i-th request carrying the i-th field's label alone
\* and every target field; no request is batched across fields or repeated,
\* whatever the earlier responses were.
C14_OneRequestPerField ==
    /\ Len(requests) <= Len(vendor_headers)
    /\ \A i \in 1..Len(requests) :
          /\ requests[i].fields = <<vendor_headers[i]>>
          /\ RequestTargets(requests[i]) = target_headers
    /\ analysis_complete => Len(requests) = Len(vendor_headers)

\* the rows a mapping makes in its artifact: one per entry, in dict order
EntryRows(d) == [i \in 1..Len(d) |-> <<d[i][1].s, d[i][2].s>>]

\* C15: last write wins across runs: once a run's mapping stage has completed,
\* the in-memory table holds for the vendor exactly the entries that stage
\* produced, and so does the persisted artifact; no entry of an earlier run
\* survives, also when this run matched fewer fields.
C15_LastWriteWins ==
    analysis_complete =>
        /\ field_maps = <<<<PyStr(current_vendor), field_mappings>>>>
        /\ files[MappingPath(current_vendor)].exists
        /\ files[MappingPath(current_vendor)].header = <<vendor_field, target_field>>
        /\ files[MappingPath(current_vendor)].rows = EntryRows(field_mappings)

\* a completed mapping stage that found an artifact with more entries than it
\* produced itself, and produced at least one
C15_Witness ==
    /\ analysis_complete
    /\ prior.exists
    /\ field_mappings # <<>>
    /\ Len(prior.rows) > Len(field_mappings)
    /\ prior.rows # <<>> /\ prior.rows[1] # EntryRows(field_mappings)[1]

\* the elements of a sequence
Range(q) == {q[i] : i \in 1..Len(q)}

\* every key of d is a vendor field of this run
KeysAreVendorFields(d) == \A i \in 1..Len(d) : d[i][1] \in {PyStr(h) : h \in Range(vendor_headers)}

\* every value of d is a target field of this run
ValuesAreTargetFields(d) == \A i \in 1..Len(d) : d[i][2] \in {PyStr(h) : h \in Range(target_headers)}

\* C16: every entry of the vendor's mapping, in memory and in the persisted
\* artifact, maps a field of the vendor's normalized schema to a field of the
\* target schema, whatever responses the matcher accepted.
C16_EntriesWithinSchemas ==
    /\ KeysAreVendorFields(field_mappings)
    /\ ValuesAreTargetFields(field_mappings)
    /\ analysis_complete =>
          \A i \in 1..Len(files[MappingPath(current_vendor)].rows) :
              LET row == files[MappingPath(current_vendor)].rows[i]
              IN  row[1] \in Range(vendor_headers) /\ row[2] \in Range(target_headers)

\* column.csv or customers.csv is missing or has no header line
SchemaReadFails == ~Readable(files[SchemaPath]) \/ ~Readable(files[TargetPath])

\* C17: a run that cannot read the vendor or the target schema ends before
\* matching: it sends no oracle request, writes or overwrites no mapping
\* artifact, and attempts no transform.
C17_SchemaFailureFatal ==
    /\ [](api_key /\ SchemaReadFails /\ pc # "idle" =>
            /\ pc = "aborted" /\ error = "SchemaReadError"
            /\ requests = <<>> /\ responses = <<>>
            /\ files[MappingPath(Vendor_A)] = prior
            /\ ~analysis_complete /\ ~etl_complete /\ transformed_data = "")
    /\ [][api_key /\ SchemaReadFails /\ pc = "idle" =>
            pc' = "aborted" /\ files' = files]_vars

\* the run has ended on an unreadable target schema, with the vendor schema
\* readable and an earlier run's mapping artifact on disk
C17_Witness ==
    /\ api_key
    /\ pc = "aborted" /\ error = "SchemaReadError"
    /\ Readable(files[SchemaPath])
    /\ ~Readable(files[TargetPath])
    /\ files[MappingPath(Vendor_A)].exists

\* C18: the mapping artifact is written once per run, after the last vendor
\* field has been processed: during the matching loop, and after an abort
\* inside it, the artifact is what the run found (absent, or what an earlier
\* completed run left), never a prefix of this run's matches.
C18_WrittenOnceAtEnd ==
    /\ []((pc = "mapping" \/ AbortedInMapping) => files[MappingPath(Vendor_A)] = prior)
    /\ [][files'[MappingPath(Vendor_A)] # files[MappingPath(Vendor_A)] =>
            /\ pc = "mapping" /\ idx = Len(vendor_headers)
            /\ pc' = "transform"]_vars

\* a run aborted inside the loop after it had matched a field, with an earlier
\* run's artifact on disk
C18_Witness ==
    /\ AbortedInMapping
    /\ field_mappings # <<>>
    /\ prior.exists
    /\ prior.rows # EntryRows(field_mappings)

\* C19: the completion flags agree with the artifacts: analysis_complete only
\* with the mapping artifact this run has written, etl_complete only with
\* analysis_complete and the output this run has written, and transformed_data
\* non-empty exactly when etl_complete.
C19_FlagsAgree ==
    /\ analysis_complete =>
          files[MappingPath(current_vendor)] = Persist(field_mappings)
    /\ etl_complete =>
          /\ analysis_complete
          /\ files[OutputPath(current_vendor)].exists
          /\ files[OutputPath(current_vendor)] =
                Transform(files[VendorDataPath], files[MappingPath(current_vendor)])
          /\ transformed_data = OutputPath(current_vendor)
    /\ transformed_data # "" <=> etl_complete

\* a run that finished both stages on a directory where an earlier run had
\* left another mapping
C19_Witness ==
    /\ etl_complete
    /\ pc = "done"
    /\ prior.exists
    /\ prior # files[MappingPath(current_vendor)]
    /\ field_mappings # <<>>

====
